---- MODULE Spec2Model ----
(***************************************************************************)
(* Model of src/de/read.rs: the BincodeRead trait and its two              *)
(* implementations, SliceReader (a borrowed byte slice) and IoReader (a    *)
(* generic io::Read stream plus the reusable Vec<u8> temp_buffer).         *)
(*                                                                         *)
(* Memory is modelled explicitly: `heap` is the sequence of allocated      *)
(* blocks, a Vec<u8> is a triple (ptr, cap, len) into it, and a cell that  *)
(* was never written holds Uninit.                                         *)
(***************************************************************************)
EXTENDS Integers, Sequences, FiniteSets, TLC

\* ---------------------------------------------------------------- bounds
MaxLen == 3        \* longest input handed to a reader
MaxCalls == 2      \* calls made on one reader

\* 'a', the two-byte lead 0xC3, the continuation byte 0x80.
\* <<195,128>> is valid UTF-8; <<128>> and <<195>> alone are not.
Bytes == {97, 195, 128}

Uninit == -1       \* content of a reserved but never written cell
NULL == 0          \* pointer of a Vec without allocation (Vec::new())

\* largest `length` argument of a call: one more than any input holds
MaxReq == MaxLen + 1

VisitorResults == {"ok", "err"}   \* what the visitor's visit_* returns

Min(a, b) == IF a < b THEN a ELSE b
Max(a, b) == IF a > b THEN a ELSE b

RECURSIVE SeqsUpTo(_)
SeqsUpTo(n) ==
    IF n = 0 THEN {<<>>}
    ELSE LET S == SeqsUpTo(n - 1)
         IN S \cup {Append(s, b) : s \in {t \in S : Len(t) = n - 1}, b \in Bytes}

Inputs == SeqsUpTo(MaxLen)

Take(s, n) == SubSeq(s, 1, n)
Drop(s, n) == SubSeq(s, n + 1, Len(s))
IsSuffix(t, s) == Len(t) <= Len(s) /\ t = Drop(s, Len(s) - Len(t))

\* ------------------------------------------------ core::str::from_utf8
Cont(b) == b >= 128 /\ b <= 191

\* Width of the well-formed sequence starting at 0-based offset i, 0 if the
\* bytes there are not a well-formed sequence (run_utf8_validation).
utf8_width(s, i) ==
    LET n == Len(s)
        b0 == s[i + 1]
        b1 == IF i + 2 <= n THEN s[i + 2] ELSE Uninit
        b2 == IF i + 3 <= n THEN s[i + 3] ELSE Uninit
        b3 == IF i + 4 <= n THEN s[i + 4] ELSE Uninit
    IN  IF b0 >= 0 /\ b0 < 128 THEN 1
        ELSE IF b0 >= 194 /\ b0 <= 223
            THEN IF Cont(b1) THEN 2 ELSE 0
        ELSE IF b0 >= 224 /\ b0 <= 239
            THEN IF /\ \/ b0 = 224 /\ b1 >= 160 /\ b1 <= 191
                       \/ b0 >= 225 /\ b0 <= 236 /\ Cont(b1)
                       \/ b0 = 237 /\ b1 >= 128 /\ b1 <= 159
                       \/ b0 >= 238 /\ Cont(b1)
                    /\ Cont(b2)
                 THEN 3 ELSE 0
        ELSE IF b0 >= 240 /\ b0 <= 244
            THEN IF /\ \/ b0 = 240 /\ b1 >= 144 /\ b1 <= 191
                       \/ b0 >= 241 /\ b0 <= 243 /\ Cont(b1)
                       \/ b0 = 244 /\ b1 >= 128 /\ b1 <= 143
                    /\ Cont(b2) /\ Cont(b3)
                 THEN 4 ELSE 0
        ELSE 0

\* Offset of the first byte that is not part of a well-formed sequence,
\* Len(s) when there is none (Utf8Error::valid_up_to).
RECURSIVE valid_up_to(_, _)
valid_up_to(s, i) ==
    IF i >= Len(s) THEN Len(s)
    ELSE LET w == utf8_width(s, i)
         IN IF w = 0 THEN i ELSE valid_up_to(s, i + w)

from_utf8(s) ==
    LET v == valid_up_to(s, 0)
    IN [ok |-> v = Len(s), valid_up_to |-> v]

\* ------------------------------------------------------------ Vec<u8>
RECURSIVE Block(_)
Block(n) == IF n = 0 THEN <<>> ELSE Append(Block(n - 1), Uninit)

VecNew == [ptr |-> NULL, cap |-> 0, len |-> 0]

\* The initialised view &v[..] of a Vec.
Deref(v, hp) == IF v.len = 0 THEN <<>> ELSE Take(hp[v.ptr], v.len)

WriteCells(block, data) ==
    [i \in 1..Len(block) |-> IF i <= Len(data) THEN data[i] ELSE block[i]]

\* Vec::reserve_exact(additional): capacity becomes len + additional when it
\* is smaller; the cells gained are uninitialised, the old ones are kept.
reserve_exact(v, hp, additional) ==
    IF v.cap - v.len >= additional THEN [tb |-> v, heap |-> hp]
    ELSE LET newcap == v.len + additional
         IN IF v.ptr = NULL
            THEN [tb |-> [ptr |-> Len(hp) + 1, cap |-> newcap, len |-> v.len],
                  heap |-> Append(hp, Block(newcap))]
            ELSE [tb |-> [v EXCEPT !.cap = newcap],
                  heap |-> [hp EXCEPT ![v.ptr] = @ \o Block(newcap - v.cap)]]

\* slice.to_vec(): a new allocation holding a copy.
to_vec(bytes, hp) ==
    IF Len(bytes) = 0 THEN [vec |-> VecNew, heap |-> hp]
    ELSE [vec |-> [ptr |-> Len(hp) + 1, cap |-> Len(bytes), len |-> Len(bytes)],
          heap |-> Append(hp, bytes)]

\* ----------------------------------------------------- the byte supply
\* io::Read::read_exact of the generic stream R over the unread bytes rd:
\* n bytes when that many are left; otherwise an UnexpectedEof error after
\* k of the bytes that were left have been taken (k is all of them for the
\* default read_exact loop, 0 for a supply that checks first).
read_exact(rd, n, k) ==
    IF n <= Len(rd)
    THEN [ok |-> TRUE, data |-> Take(rd, n), reader |-> Drop(rd, n)]
    ELSE [ok |-> FALSE, data |-> Take(rd, k), reader |-> Drop(rd, k)]

PartialChoices(rd, n) == IF n <= Len(rd) THEN {0} ELSE 0..Len(rd)

\* io::Read::read of the generic stream: c bytes, c = 0 only at end of
\* stream or for an empty destination.
ReadCounts(rd, n) ==
    IF n = 0 \/ Len(rd) = 0 THEN {0} ELSE 1..Min(n, Len(rd))


\* -------------------------------------------------------- SliceReader
VisitResult(vres) == IF vres = "ok" THEN "ok" ELSE "visitor_err"

\* <&[u8] as io::Read>::read: copies min(n, len) bytes and advances.
SliceReader_read(slice, n) ==
    LET c == Min(n, Len(slice))
    IN [result |-> "ok", visited |-> FALSE, span |-> Take(slice, c),
        slice |-> Drop(slice, c)]

\* <&[u8] as io::Read>::read_exact: fails without taking anything when the
\* slice is shorter than the destination.
SliceReader_read_exact(slice, n) ==
    IF n > Len(slice)
    THEN [result |-> "eof", visited |-> FALSE, span |-> <<>>, slice |-> slice]
    ELSE [result |-> "ok", visited |-> FALSE, span |-> Take(slice, n),
          slice |-> Drop(slice, n)]

SliceReader_forward_read_str_ge(slice, length, vres) ==
    IF length >= Len(slice)
    THEN [result |-> "eof", visited |-> FALSE, span |-> <<>>, slice |-> slice]
    ELSE IF ~from_utf8(Take(slice, length)).ok
    THEN [result |-> "utf8", visited |-> FALSE, span |-> <<>>, slice |-> slice]
    ELSE [result |-> VisitResult(vres), visited |-> TRUE,
          span |-> Take(slice, length), slice |-> Drop(slice, length)]

SliceReader_forward_read_str_advance_first(slice, length, vres) ==
    IF length > Len(slice)
    THEN [result |-> "eof", visited |-> FALSE, span |-> <<>>, slice |-> slice]
    ELSE IF ~from_utf8(Take(slice, length)).ok
    THEN [result |-> "utf8", visited |-> FALSE, span |-> <<>>,
          slice |-> Drop(slice, length)]
    ELSE [result |-> VisitResult(vres), visited |-> TRUE,
          span |-> Take(slice, length), slice |-> Drop(slice, length)]

SliceReader_forward_read_str(slice, length, vres) ==
    IF length > Len(slice)
    THEN [result |-> "eof", visited |-> FALSE, span |-> <<>>, slice |-> slice]
    ELSE IF ~from_utf8(Take(slice, length)).ok
    THEN [result |-> "utf8", visited |-> FALSE, span |-> <<>>, slice |-> slice]
    ELSE [result |-> VisitResult(vres), visited |-> TRUE,
          span |-> Take(slice, length), slice |-> Drop(slice, length)]

SliceReader_get_byte_buffer_no_advance(slice, length, hp) ==
    IF length > Len(slice)
    THEN [result |-> "eof", visited |-> FALSE, span |-> <<>>, slice |-> slice,
          vec |-> VecNew, heap |-> hp]
    ELSE LET r == to_vec(Take(slice, length), hp)
         IN [result |-> "ok", visited |-> FALSE, span |-> Take(slice, length),
             slice |-> slice, vec |-> r.vec, heap |-> r.heap]

SliceReader_get_byte_buffer(slice, length, hp) ==
    IF length > Len(slice)
    THEN [result |-> "eof", visited |-> FALSE, span |-> <<>>, slice |-> slice,
          vec |-> VecNew, heap |-> hp]
    ELSE LET r == to_vec(Take(slice, length), hp)
         IN [result |-> "ok", visited |-> FALSE, span |-> Take(slice, length),
             slice |-> Drop(slice, length), vec |-> r.vec, heap |-> r.heap]

SliceReader_forward_read_bytes_ge(slice, length, vres) ==
    IF length >= Len(slice)
    THEN [result |-> "eof", visited |-> FALSE, span |-> <<>>, slice |-> slice]
    ELSE [result |-> VisitResult(vres), visited |-> TRUE,
          span |-> Take(slice, length), slice |-> Drop(slice, length)]

SliceReader_forward_read_bytes(slice, length, vres) ==
    IF length > Len(slice)
    THEN [result |-> "eof", visited |-> FALSE, span |-> <<>>, slice |-> slice]
    ELSE [result |-> VisitResult(vres), visited |-> TRUE,
          span |-> Take(slice, length), slice |-> Drop(slice, length)]

\* ----------------------------------------------------------- IoReader
\* IoReader::read forwards to the stream: c of the unread bytes.
IoReader_read(rd, c) ==
    [result |-> "ok", visited |-> FALSE, span |-> Take(rd, c),
     reader |-> Drop(rd, c)]

\* IoReader::read_exact forwards to the stream's read_exact.
IoReader_read_exact(rd, n, k) ==
    LET rx == read_exact(rd, n, k)
    IN [result |-> IF rx.ok THEN "ok" ELSE "eof", visited |-> FALSE,
        span |-> IF rx.ok THEN rx.data ELSE <<>>, reader |-> rx.reader]

\* Writes the bytes a read_exact delivered into the buffer of v.
Store(v, hp, data) ==
    IF v.ptr = NULL THEN hp ELSE [hp EXCEPT ![v.ptr] = WriteCells(@, data)]

fill_buffer_ignore_err(tb, hp, rd, length, k) ==
    LET cur == tb.len
        r1 == IF length > cur THEN reserve_exact(tb, hp, length - cur)
              ELSE [tb |-> tb, heap |-> hp]
        tb2 == [r1.tb EXCEPT !.len = length]
        rx == read_exact(rd, length, k)
    IN [ok |-> TRUE, tb |-> tb2, heap |-> Store(tb2, r1.heap, rx.data),
        reader |-> rx.reader, written |-> Len(rx.data)]

fill_buffer_read_some(tb, hp, rd, length, k) ==
    LET cur == tb.len
        r1 == IF length > cur THEN reserve_exact(tb, hp, length - cur)
              ELSE [tb |-> tb, heap |-> hp]
        tb2 == [r1.tb EXCEPT !.len = length]
        c == Min(length, Len(rd))
    IN [ok |-> TRUE, tb |-> tb2, heap |-> Store(tb2, r1.heap, Take(rd, c)),
        reader |-> Drop(rd, c), written |-> c]

fill_buffer_no_shrink(tb, hp, rd, length, k) ==
    LET cur == tb.len
        r1 == IF length > cur THEN reserve_exact(tb, hp, length - cur)
              ELSE [tb |-> tb, heap |-> hp]
        tb2 == [r1.tb EXCEPT !.len = Max(cur, length)]
        rx == read_exact(rd, tb2.len, Min(k, Len(rd)))
    IN [ok |-> rx.ok, tb |-> tb2, heap |-> Store(tb2, r1.heap, rx.data),
        reader |-> rx.reader, written |-> Len(rx.data)]

\* fill_buffer: reserve the shortfall, set_len(length), then read_exact
\* straight into the buffer.  `written` counts the cells the read wrote.
fill_buffer(tb, hp, rd, length, k) ==
    LET cur == tb.len
        r1 == IF length > cur THEN reserve_exact(tb, hp, length - cur)
              ELSE [tb |-> tb, heap |-> hp]
        tb2 == [r1.tb EXCEPT !.len = length]
        rx == read_exact(rd, length, k)
    IN [ok |-> rx.ok, tb |-> tb2, heap |-> Store(tb2, r1.heap, rx.data),
        reader |-> rx.reader, written |-> Len(rx.data)]

\* What a call that returns at `self.fill_buffer(length)?` leaves behind.
FillFailed(f) ==
    [result |-> "eof", visited |-> FALSE, span |-> <<>>, tb |-> f.tb,
     heap |-> f.heap, reader |-> f.reader, observed |-> FALSE, obs |-> <<>>,
     written |-> f.written, vec |-> VecNew]

IoReader_forward_read_str_no_validation(tb, hp, rd, length, vres, k) ==
    LET f == fill_buffer(tb, hp, rd, length, k)
        buf == Deref(f.tb, f.heap)
    IN IF ~f.ok THEN FillFailed(f)
       ELSE [result |-> VisitResult(vres), visited |-> TRUE, span |-> buf,
             tb |-> f.tb, heap |-> f.heap, reader |-> f.reader,
             observed |-> TRUE, obs |-> buf, written |-> f.written,
             vec |-> VecNew]

IoReader_forward_read_str(tb, hp, rd, length, vres, k) ==
    LET f == fill_buffer(tb, hp, rd, length, k)
        buf == Deref(f.tb, f.heap)
    IN IF ~f.ok THEN FillFailed(f)
       ELSE IF ~from_utf8(buf).ok
       THEN [result |-> "utf8", visited |-> FALSE, span |-> <<>>,
             tb |-> f.tb, heap |-> f.heap, reader |-> f.reader,
             observed |-> TRUE, obs |-> buf, written |-> f.written,
             vec |-> VecNew]
       ELSE [result |-> VisitResult(vres), visited |-> TRUE, span |-> buf,
             tb |-> f.tb, heap |-> f.heap, reader |-> f.reader,
             observed |-> TRUE, obs |-> buf, written |-> f.written,
             vec |-> VecNew]

IoReader_get_byte_buffer_alias(tb, hp, rd, length, k) ==
    LET f == fill_buffer(tb, hp, rd, length, k)
        buf == Deref(f.tb, f.heap)
    IN IF ~f.ok THEN FillFailed(f)
       ELSE [result |-> "ok", visited |-> FALSE, span |-> buf,
             tb |-> f.tb, heap |-> f.heap, reader |-> f.reader,
             observed |-> TRUE, obs |-> buf, written |-> f.written,
             vec |-> f.tb]

\* get_byte_buffer: mem::replace moves the filled Vec out and leaves
\* Vec::new() in temp_buffer.
IoReader_get_byte_buffer(tb, hp, rd, length, k) ==
    LET f == fill_buffer(tb, hp, rd, length, k)
        buf == Deref(f.tb, f.heap)
    IN IF ~f.ok THEN FillFailed(f)
       ELSE [result |-> "ok", visited |-> FALSE, span |-> buf,
             tb |-> VecNew, heap |-> f.heap, reader |-> f.reader,
             observed |-> TRUE, obs |-> buf, written |-> f.written,
             vec |-> f.tb]

IoReader_forward_read_bytes_visit_first(tb, hp, rd, length, vres, k) ==
    LET f == fill_buffer(tb, hp, rd, length, k)
        buf == Deref(f.tb, f.heap)
    IN [result |-> IF f.ok THEN VisitResult(vres) ELSE "eof",
        visited |-> TRUE, span |-> buf,
        tb |-> f.tb, heap |-> f.heap, reader |-> f.reader,
        observed |-> TRUE, obs |-> buf, written |-> f.written,
        vec |-> VecNew]

IoReader_forward_read_bytes(tb, hp, rd, length, vres, k) ==
    LET f == fill_buffer(tb, hp, rd, length, k)
        buf == Deref(f.tb, f.heap)
    IN IF ~f.ok THEN FillFailed(f)
       ELSE [result |-> VisitResult(vres), visited |-> TRUE, span |-> buf,
             tb |-> f.tb, heap |-> f.heap, reader |-> f.reader,
             observed |-> TRUE, obs |-> buf, written |-> f.written,
             vec |-> VecNew]


\* -------------------------------------------------------------- state
VARIABLES
    kind,         \* which reader was constructed: "slice" or "io"
    input,        \* the bytes the reader was constructed over (never changes)
    slice,        \* SliceReader.slice: the remaining view
    reader,       \* IoReader.reader: the bytes the stream has not yielded yet
    temp_buffer,  \* IoReader.temp_buffer: [ptr, cap, len]
    heap,         \* allocated blocks, indexed by pointer
    returned,     \* the Vecs get_byte_buffer gave to the caller, with their
                  \* content at the time
    last,         \* the latest call: arguments, outcome, what it exposed
    history,      \* sum of the lengths and the bytes delivered by the calls
                  \* so far, kept while every call has returned Ok
    calls         \* number of calls made

vars == <<kind, input, slice, reader, temp_buffer, heap, returned, last,
          history, calls>>

Ops3 == {"forward_read_str", "get_byte_buffer", "forward_read_bytes"}

NoCall ==
    [op |-> "new", length |-> 0, result |-> "ok", visited |-> FALSE,
     span |-> <<>>, pre |-> <<>>, observed |-> FALSE, obs |-> <<>>,
     written |-> 0]

\* SliceReader::new(bytes) or IoReader::new(r) with r a stream over bytes.
Init ==
    /\ kind \in {"slice", "io"}
    /\ input \in Inputs
    /\ slice = IF kind = "slice" THEN input ELSE <<>>
    /\ reader = IF kind = "io" THEN input ELSE <<>>
    /\ temp_buffer = VecNew
    /\ heap = <<>>
    /\ returned = <<>>
    /\ last = NoCall
    /\ history = [ok |-> TRUE, lens |-> 0, bytes |-> <<>>]
    /\ calls = 0

Remaining == IF kind = "slice" THEN slice ELSE reader

Log(op, length, pre, r, observed, obs, written) ==
    [op |-> op, length |-> length, result |-> r.result,
     visited |-> r.visited, span |-> r.span, pre |-> pre,
     observed |-> observed, obs |-> obs, written |-> written]

Extend(h, r, n) ==
    IF h.ok /\ r.result = "ok"
    THEN [ok |-> TRUE, lens |-> h.lens + n, bytes |-> h.bytes \o r.span]
    ELSE [h EXCEPT !.ok = FALSE]

Given(v, hp) == [ptr |-> v.ptr, cap |-> v.cap, len |-> v.len,
                 snap |-> Deref(v, hp)]

SliceStep(op, length, r, n) ==
    /\ slice' = r.slice
    /\ last' = Log(op, length, slice, r, FALSE, <<>>, 0)
    /\ history' = Extend(history, r, n)
    /\ calls' = calls + 1
    /\ UNCHANGED <<kind, input, reader, temp_buffer>>

IoStep(op, length, r) ==
    /\ reader' = r.reader
    /\ temp_buffer' = r.tb
    /\ heap' = r.heap
    /\ last' = Log(op, length, reader, r, r.observed, r.obs, r.written)
    /\ history' = Extend(history, r, length)
    /\ calls' = calls + 1
    /\ UNCHANGED <<kind, input, slice>>

\* ------------------------------------------------- SliceReader actions
SliceRead ==
    /\ kind = "slice" /\ calls < MaxCalls
    /\ \E n \in 0..MaxReq :
          LET r == SliceReader_read(slice, n)
          IN SliceStep("read", n, r, Len(r.span))
    /\ UNCHANGED <<heap, returned>>

SliceReadExact ==
    /\ kind = "slice" /\ calls < MaxCalls
    /\ \E n \in 0..MaxReq :
          SliceStep("read_exact", n, SliceReader_read_exact(slice, n), n)
    /\ UNCHANGED <<heap, returned>>

SliceForwardReadStr ==
    /\ kind = "slice" /\ calls < MaxCalls
    /\ \E length \in 0..MaxReq, vres \in VisitorResults :
          SliceStep("forward_read_str", length,
                    SliceReader_forward_read_str(slice, length, vres),
                    length)
    /\ UNCHANGED <<heap, returned>>

SliceGetByteBuffer ==
    /\ kind = "slice" /\ calls < MaxCalls
    /\ \E length \in 0..MaxReq :
          LET r == SliceReader_get_byte_buffer(slice, length, heap)
          IN /\ SliceStep("get_byte_buffer", length, r, length)
             /\ heap' = r.heap
             /\ returned' = IF r.result = "ok"
                            THEN Append(returned, Given(r.vec, r.heap))
                            ELSE returned

SliceForwardReadBytes ==
    /\ kind = "slice" /\ calls < MaxCalls
    /\ \E length \in 0..MaxReq, vres \in VisitorResults :
          SliceStep("forward_read_bytes", length,
                    SliceReader_forward_read_bytes(slice, length, vres),
                    length)
    /\ UNCHANGED <<heap, returned>>

\* ---------------------------------------------------- IoReader actions
IoRead ==
    /\ kind = "io" /\ calls < MaxCalls
    /\ \E n \in 0..MaxReq : \E c \in ReadCounts(reader, n) :
          LET r == IoReader_read(reader, c)
          IN /\ reader' = r.reader
             /\ last' = Log("read", n, reader, r, FALSE, <<>>, 0)
             /\ history' = Extend(history, r, c)
    /\ calls' = calls + 1
    /\ UNCHANGED <<kind, input, slice, temp_buffer, heap, returned>>

IoReadExact ==
    /\ kind = "io" /\ calls < MaxCalls
    /\ \E n \in 0..MaxReq : \E k \in PartialChoices(reader, n) :
          LET r == IoReader_read_exact(reader, n, k)
          IN /\ reader' = r.reader
             /\ last' = Log("read_exact", n, reader, r, FALSE, <<>>, 0)
             /\ history' = Extend(history, r, n)
    /\ calls' = calls + 1
    /\ UNCHANGED <<kind, input, slice, temp_buffer, heap, returned>>

IoForwardReadStr ==
    /\ kind = "io" /\ calls < MaxCalls
    /\ \E length \in 0..MaxReq, vres \in VisitorResults :
       \E k \in PartialChoices(reader, length) :
          IoStep("forward_read_str", length,
                 IoReader_forward_read_str(temp_buffer, heap, reader,
                                           length, vres, k))
    /\ UNCHANGED returned

IoGetByteBuffer ==
    /\ kind = "io" /\ calls < MaxCalls
    /\ \E length \in 0..MaxReq : \E k \in PartialChoices(reader, length) :
          LET r == IoReader_get_byte_buffer(temp_buffer, heap, reader,
                                            length, k)
          IN /\ IoStep("get_byte_buffer", length, r)
             /\ returned' = IF r.result = "ok"
                            THEN Append(returned, Given(r.vec, r.heap))
                            ELSE returned

IoForwardReadBytes ==
    /\ kind = "io" /\ calls < MaxCalls
    /\ \E length \in 0..MaxReq, vres \in VisitorResults :
       \E k \in PartialChoices(reader, length) :
          IoStep("forward_read_bytes", length,
                 IoReader_forward_read_bytes(temp_buffer, heap, reader,
                                             length, vres, k))
    /\ UNCHANGED returned

Next ==
    \/ SliceRead
    \/ SliceReadExact
    \/ SliceForwardReadStr
    \/ SliceGetByteBuffer
    \/ SliceForwardReadBytes
    \/ IoRead
    \/ IoReadExact
    \/ IoForwardReadStr
    \/ IoGetByteBuffer
    \/ IoForwardReadBytes

Spec == Init /\ [][Next]_vars

TypeOK ==
    /\ kind \in {"slice", "io"}
    /\ input \in Inputs
    /\ IsSuffix(Remaining, input)
    /\ temp_buffer.len <= temp_buffer.cap
    /\ temp_buffer.ptr = NULL <=> temp_buffer.cap = 0
    /\ temp_buffer.ptr # NULL => Len(heap[temp_buffer.ptr]) = temp_buffer.cap
    /\ calls \in 0..MaxCalls


\* ------------------------------------------------------------- claims
Delivered == last.result \in {"ok", "visitor_err"}

\* C1: a successful forward_read_str, get_byte_buffer or forward_read_bytes
\* of either reader advances the position by exactly `length`; after a
\* sequence of successful calls the bytes consumed are the sum of the
\* lengths and the unread remainder is the input's suffix at that offset.
C1_AdvanceExactly ==
    /\ (last.op \in Ops3 /\ last.result = "ok") =>
          /\ Len(last.pre) - Len(Remaining) = last.length
          /\ Remaining = Drop(last.pre, last.length)
    /\ history.ok =>
          /\ Len(input) - Len(Remaining) = history.lens
          /\ Remaining = Drop(input, history.lens)

C1_Witness ==
    /\ kind = "slice" /\ calls = 2 /\ history.ok
    /\ last.op = "get_byte_buffer" /\ last.length > 0
    /\ history.lens > last.length

\* C2: on a SliceReader with L bytes left, a call with length k > L fails
\* with unexpected end of input, does not call the visitor and leaves the
\* slice as it was; with k <= L the call never fails with end of input.
C2_SliceEof ==
    (kind = "slice" /\ last.op \in Ops3) =>
        IF last.length > Len(last.pre)
        THEN last.result = "eof" /\ ~last.visited /\ slice = last.pre
        ELSE last.result # "eof"

C2_Witness ==
    /\ kind = "slice" /\ last.op \in Ops3 /\ calls = 2
    /\ Len(last.pre) > 0 /\ Len(last.pre) < Len(input)
    /\ last.length > Len(last.pre) /\ last.result = "eof"

\* C3: a SliceReader forward_read_str whose next `length` bytes are not
\* valid UTF-8 fails with InvalidUtf8Encoding, does not call the visitor
\* and leaves the slice as it was.
C3_SliceInvalidUtf8 ==
    (/\ kind = "slice" /\ last.op = "forward_read_str"
     /\ last.length <= Len(last.pre)
     /\ ~from_utf8(Take(last.pre, last.length)).ok) =>
        last.result = "utf8" /\ ~last.visited /\ slice = last.pre

C3_Witness ==
    /\ kind = "slice" /\ last.op = "forward_read_str" /\ last.length = 1
    /\ Len(last.pre) > 0 /\ last.pre[1] = 128
    /\ last.result = "utf8"

\* C4: whenever forward_read_str of either reader calls the visitor, the
\* text passed is valid UTF-8 and is the `length` bytes that were next in
\* the input; the visitor is not called on a call that fails with end of
\* input or invalid encoding.
C4_VisitorSeesValidText ==
    last.op = "forward_read_str" =>
        /\ last.visited =>
              /\ from_utf8(last.span).ok
              /\ last.length <= Len(last.pre)
              /\ last.span = Take(last.pre, last.length)
        /\ last.result \in {"eof", "utf8"} => ~last.visited
        /\ Delivered => last.visited

C4_Witness ==
    /\ kind = "io" /\ last.op = "forward_read_str" /\ last.visited
    /\ last.span = <<195, 128>>

\* C5: an IoReader call that requests more bytes than the stream yields
\* before closing fails with the end-of-stream error; no call hands the
\* visitor, or returns, a span shorter than the length requested.
C5_StreamShortRead ==
    (kind = "io" /\ last.op \in Ops3) =>
        /\ last.length > Len(last.pre) =>
              last.result = "eof" /\ ~last.visited /\ last.span = <<>>
        /\ (last.visited \/ Delivered) => Len(last.span) = last.length

C5_Witness ==
    /\ kind = "io" /\ last.op \in Ops3 /\ last.result = "eof"
    /\ Len(last.pre) = 3 /\ last.length = 4

\* C6: on an IoReader every call that the stream can satisfy delivers
\* exactly the next `length` bytes of the stream, whatever earlier calls
\* requested; a sequence of successful calls delivers the stream's blocks in
\* order.
C6_StreamBlocksInOrder ==
    kind = "io" =>
        /\ (last.op \in Ops3 /\ last.length <= Len(last.pre)) =>
              last.result # "eof"
        /\ (last.op \in Ops3 /\ Delivered) =>
              /\ last.length <= Len(last.pre)
              /\ last.span = Take(last.pre, last.length)
        /\ history.ok => history.bytes = Take(input, history.lens)

C6_Witness ==
    /\ kind = "io" /\ calls = 2 /\ history.ok
    /\ last.op \in {"forward_read_str", "forward_read_bytes"}
    /\ last.length > 0 /\ last.length < temp_buffer.cap
    /\ Len(history.bytes) > last.length

\* C7: IoReader get_byte_buffer leaves Vec::new() in temp_buffer; no later
\* call changes the content of a buffer it returned, and the buffers it
\* returned share no storage with each other or with temp_buffer.
C7_TakeBufferNotAliased ==
    kind = "io" =>
        /\ \A i \in 1..Len(returned) :
              /\ Deref(returned[i], heap) = returned[i].snap
              /\ returned[i].ptr # NULL => temp_buffer.ptr # returned[i].ptr
              /\ \A j \in 1..Len(returned) :
                    (i # j /\ returned[i].ptr # NULL) =>
                        returned[i].ptr # returned[j].ptr
        /\ (last.op = "get_byte_buffer" /\ last.result = "ok") =>
              temp_buffer = VecNew

C7_Witness ==
    /\ kind = "io" /\ Len(returned) = 2
    /\ returned[1].len > 0 /\ returned[2].len > 0

\* C8 (as stated): an IoReader call that requests more than the stream has
\* left fails and leaves the stream's position where it was.
C8_StreamEofBeforeConsumption ==
    (kind = "io" /\ last.op \in Ops3 /\ last.length > Len(last.pre)) =>
        last.result = "eof" /\ reader = last.pre

\* C8 (amended): an IoReader call that requests more than the stream has
\* left fails with the end-of-stream error without calling the visitor; it
\* may have taken any number of the bytes that were left, and what remains
\* unread is a suffix of what was unread before.  The error arises only
\* when the stream has fewer bytes than requested.
C8_StreamEofAmended ==
    (kind = "io" /\ last.op \in Ops3) =>
        /\ last.length > Len(last.pre) =>
              /\ last.result = "eof" /\ ~last.visited
              /\ IsSuffix(reader, last.pre)
        /\ last.result = "eof" =>
              last.length > Len(last.pre) /\ ~last.visited

C8_Witness ==
    /\ kind = "io" /\ last.op \in Ops3 /\ last.result = "eof"
    /\ Len(reader) < Len(last.pre)

\* C9: a call with length 0 on either reader, also when no bytes are left,
\* is not failed by the reader (the visitor's own result is passed on),
\* yields an empty span and leaves the position unchanged.
C9_ZeroLength ==
    (last.op \in Ops3 /\ last.length = 0) =>
        /\ Delivered
        /\ last.span = <<>>
        /\ Remaining = last.pre
        /\ last.op = "get_byte_buffer" => last.result = "ok"
        /\ last.op # "get_byte_buffer" => last.visited

C9_Witness ==
    /\ last.op \in Ops3 /\ last.length = 0 /\ last.result = "ok"
    /\ Len(input) > 0 /\ Len(Remaining) = 0

\* C10: whenever an IoReader call validates temp_buffer as text, hands it to
\* the visitor or returns it, the buffer's length is the requested length and
\* every byte of it was written by the read_exact of that same call; a call
\* whose fill failed does not read the buffer.
C10_NoUninitObserved ==
    kind = "io" =>
        /\ last.observed =>
              /\ Len(last.obs) = last.length
              /\ last.written = last.length
              /\ \A i \in 1..Len(last.obs) : last.obs[i] \in Bytes
        /\ (last.visited \/ (last.op \in Ops3 /\ Delivered)) =>
              last.observed /\ last.span = last.obs
        /\ (last.op \in Ops3 /\ last.result = "eof") => ~last.observed

\* A fill that failed part-way (more was requested than the input holds)
\* followed by a call that read the reused buffer.
C10_Witness ==
    /\ kind = "io" /\ last.observed /\ last.length > 0
    /\ last.op # "get_byte_buffer"
    /\ temp_buffer.cap > Len(input)
    /\ Len(last.pre) < Len(input)

====
